---- MODULE Spec2Model ----
(***************************************************************************)
(* Model of addons/source-python/plugins/rpg/skill.py: the event_callback  *)
(* decorator, the _SkillMeta metaclass that builds a class's               *)
(* _event_callbacks registry, Skill instances (level, upgrade_cost,        *)
(* downgrade_refund, execute_callbacks) and TickRepeatSkill.               *)
(***************************************************************************)
EXTENDS Integers, Sequences, FiniteSets, TLC

VARIABLES classes, instances, timers, calls, error, result, lastOp,
          account, destroyed

vars == <<classes, instances, timers, calls, error, result, lastOp,
          account, destroyed>>

----------------------------------------------------------------------------
(* Bounds *)

MaxClasses == 2      \* user-defined skill classes
MaxMethods == 3      \* methods declared over all user-defined classes
MaxEventNames == 2   \* event names given to one event_callback(...) call
MaxInstances == 2    \* skill instances constructed
MaxLevelArg == 2     \* largest level passed to a constructor
MaxTicks == 2        \* triggers of one tick repeat
MaxLevelSet == 1     \* the max_level a class body assigns
MaxDecorations == 2  \* event_callback(...) lines stacked on one def
MaxTransactions == 6 \* priced level transitions of one instance
MaxRegistryLen == 2 \* length of a callback list under later mutation
MaxNameLen == 2 \* characters of a type name

----------------------------------------------------------------------------
(* Program constants and input alphabets *)

None == -1                 \* max_level = None, tick_repeat absent
SkillId == 1               \* class Skill
TickRepeatSkillId == 2     \* class TickRepeatSkill

UserClassIds == 3..(2 + MaxClasses)

Events == {"player_spawn", "player_death"}
MethodNames == {"_give_health", "_on_death"}
EventData == {1, 2}        \* the **event_args of one dispatch

RECURSIVE SeqsUpTo(_, _)
SeqsUpTo(S, n) ==
    IF n = 0 THEN {<<>>}
    ELSE LET shorter == SeqsUpTo(S, n - 1)
         IN  shorter \cup {Append(s, x) : s \in shorter, x \in S}

EventTuples == SeqsUpTo(Events, MaxEventNames)

----------------------------------------------------------------------------
(* event_callback and function objects *)

\* A function object created by a def statement in the body of class owner.
\* It has no _events attribute until a decorator sets one.
function(owner, name) ==
    [owner |-> owner, name |-> name, tagged |-> FALSE, events |-> <<>>]

\* variant: the names are added to those the callback already carries
event_callback_accumulate(event_names, callback) ==
    [callback EXCEPT !.tagged = TRUE, !.events = @ \o event_names]

\* event_callback(*event_names)(callback): sets callback._events and returns
\* the callback.  It never raises.
event_callback(event_names, callback) ==
    [callback EXCEPT !.tagged = TRUE, !.events = event_names]

\* Outcome of applying the decorator: the code has no validation.
event_callback_error(event_names) == "none"

RECURSIVE ApplyDecorators(_, _)
\* decos are the decorator lines above a def, innermost first.
ApplyDecorators(f, decos) ==
    IF decos = <<>> THEN f
    ELSE ApplyDecorators(event_callback(Head(decos), f), Tail(decos))

\* attrs of a class body: one entry per declared name, in declaration order.
ClassBody(owner, decls) ==
    [i \in 1..Len(decls) |->
        ApplyDecorators(function(owner, decls[i].name), decls[i].decos)]

----------------------------------------------------------------------------
(* _SkillMeta.__init__ *)

EmptyRegistry == [e \in {} |-> <<>>]

\* variant: insert(0, f) instead of append(f)
AppendCallbackFront(reg, event_name, f) ==
    IF event_name \in DOMAIN reg
    THEN [reg EXCEPT ![event_name] = <<f>> \o @]
    ELSE reg @@ (event_name :> <<f>>)

\* cls._event_callbacks[event_name].append(f) on a defaultdict(list)
AppendCallback(reg, event_name, f) ==
    IF event_name \in DOMAIN reg
    THEN [reg EXCEPT ![event_name] = Append(@, f)]
    ELSE reg @@ (event_name :> <<f>>)

\* variant: only the first event name is registered
RegisterEventsFirst(reg, f, names) ==
    IF names = <<>> THEN reg ELSE AppendCallback(reg, Head(names), f)

RECURSIVE RegisterEvents(_, _, _)
\* for event_name in f._events: ...
RegisterEvents(reg, f, names) ==
    IF names = <<>> THEN reg
    ELSE RegisterEvents(AppendCallback(reg, Head(names), f), f, Tail(names))

RECURSIVE RegisterAttrsAll(_, _)
\* variant: no hasattr test, a method without _events is registered as well
RegisterAttrsAll(reg, attrs) ==
    IF attrs = <<>> THEN reg
    ELSE RegisterAttrsAll(
            RegisterEvents(reg, Head(attrs),
                           IF Head(attrs).tagged THEN Head(attrs).events
                           ELSE <<"player_spawn">>),
            Tail(attrs))

RECURSIVE RegisterAttrs(_, _)
\* for f in attrs.values(): if not hasattr(f, '_events'): continue ...
RegisterAttrs(reg, attrs) ==
    IF attrs = <<>> THEN reg
    ELSE IF ~Head(attrs).tagged
         THEN RegisterAttrs(reg, Tail(attrs))
         ELSE RegisterAttrs(RegisterEvents(reg, Head(attrs), Head(attrs).events),
                            Tail(attrs))

\* variant: a class that registers nothing reuses the mapping of its base
collections_defaultdict_reuse(cls, c, base, attrs) ==
    IF base # None /\ RegisterAttrs(EmptyRegistry, attrs) = EmptyRegistry
    THEN cls[base].registry_ref
    ELSE c

\* cls._event_callbacks = collections.defaultdict(list): a new mapping object
\* for every class c, identified by the class it is made for.  Its lists are
\* made by the mapping's list factory, one per (mapping, key).
collections_defaultdict(cls, c, base, attrs) == c

\* the classes whose _event_callbacks is the same object as that of c
SameRegistry(cls, c) ==
    {d \in DOMAIN cls : cls[d].registry_ref = cls[c].registry_ref}

\* a write to the mapping object of c, seen through every reference to it
WriteRegistry(cls, c, reg) ==
    [d \in DOMAIN cls |->
        IF d \in SameRegistry(cls, c)
        THEN [cls[d] EXCEPT !.event_callbacks = reg]
        ELSE cls[d]]

\* The registry a new class gets; the bases' registries are not consulted.
SkillMeta_init(bases, attrs) == RegisterAttrs(EmptyRegistry, attrs)

----------------------------------------------------------------------------
(* Class table *)

SkillAttrs ==
    << function(SkillId, "class_id"), function(SkillId, "name"),
       function(SkillId, "description"), function(SkillId, "__init__"),
       function(SkillId, "upgrade_cost"), function(SkillId, "downgrade_refund"),
       function(SkillId, "execute_callbacks") >>

TickRepeatSkillAttrs ==
    << function(TickRepeatSkillId, "__init__"),
       function(TickRepeatSkillId, "_tick") >>

\* type.__init__ followed by _SkillMeta.__init__; sets_max_level tells whether
\* the class body assigns max_level (Skill assigns None).
NewClass(base, attrs, sets_max_level, ml) ==
    [base |-> base, attrs |-> attrs,
     own_max_level |-> sets_max_level, max_level |-> ml,
     event_callbacks |-> SkillMeta_init(base, attrs)]

HasMethod(attrs, name) == \E i \in 1..Len(attrs) : attrs[i].name = name

RECURSIVE max_level(_, _)
\* attribute lookup of max_level along the base chain; Skill sets None
max_level(cls, c) ==
    IF cls[c].own_max_level THEN cls[c].max_level ELSE max_level(cls, cls[c].base)

RECURSIVE TickOwner(_, _)
\* the class whose _tick a lookup on an instance of c finds
TickOwner(cls, c) ==
    IF HasMethod(cls[c].attrs, "_tick") THEN c
    ELSE IF cls[c].base = None THEN None
    ELSE TickOwner(cls, cls[c].base)

RECURSIVE IsSubclass(_, _, _)
IsSubclass(cls, c, b) ==
    IF c = b THEN TRUE
    ELSE IF cls[c].base = None THEN FALSE
    ELSE IsSubclass(cls, cls[c].base, b)

----------------------------------------------------------------------------
(* Class-level identity: class_id, name, description *)

\* Python values of the identity attributes: a str (its characters) or None
Str(text) == [kind |-> "str", text |-> text]

PyNone == [kind |-> "NoneType", text |-> <<>>]

\* type.__new__: __name__ is the name of the class statement, __qualname__
\* is the name prefixed by the enclosing scope, __doc__ is the docstring of
\* the body or None; assigns are the body's plain assignments to class_id,
\* name or description.
TypeIdentity(header) ==
    [__name__ |-> header.name,
     __qualname__ |-> header.scope \o header.name,
     __doc__ |-> header.doc,
     assigns |-> header.assigns]

RECURSIVE str_replace(_, _, _)
\* s.replace(old, new) for one-character old and new
str_replace(s, old, new) ==
    IF s = <<>> THEN <<>>
    ELSE <<IF Head(s) = old THEN new ELSE Head(s)>>
         \o str_replace(Tail(s), old, new)

\* Skill.class_id: cls.__qualname__
Skill_class_id(cls, c) == Str(cls[c].__qualname__)

\* variant: replace('_', ' ', 1), only the first underscore
Skill_name_first(cls, c) ==
    LET s == cls[c].__name__
        first == IF \E k \in 1..Len(s) : s[k] = "_"
                 THEN CHOOSE k \in 1..Len(s) :
                        s[k] = "_" /\ \A j \in 1..(k - 1) : s[j] # "_"
                 ELSE 0
    IN  Str([k \in 1..Len(s) |-> IF k = first THEN " " ELSE s[k]])

\* Skill.name: cls.__name__.replace('_', ' ')
Skill_name(cls, c) == Str(str_replace(cls[c].__name__, "_", " "))

\* Skill.description: cls.__doc__, the class's own docstring
Skill_description(cls, c) == cls[c].__doc__

\* rpg.utils.ClassProperty: reading the attribute on class c calls the
\* decorated getter with c; no instance is involved.
ClassProperty(cls, c, attr) ==
    CASE attr = "class_id" -> Skill_class_id(cls, c)
      [] attr = "name" -> Skill_name(cls, c)
      [] attr = "description" -> Skill_description(cls, c)

RECURSIVE ClassAttr(_, _, _, _)
\* c.attr: the first class from d up the base chain whose body assigns attr
\* gives the value; Skill and TickRepeatSkill assign none of the three, so
\* there the lookup ends at Skill's property.
ClassAttr(cls, c, d, attr) ==
    IF d \in {SkillId, TickRepeatSkillId} THEN ClassProperty(cls, c, attr)
    ELSE IF attr \in DOMAIN cls[d].assigns THEN cls[d].assigns[attr]
    ELSE ClassAttr(cls, c, cls[d].base, attr)

----------------------------------------------------------------------------
(* Skill *)

\* Skill.__init__(self, level=0): stores the argument as given
Skill_init(cls, level) == [cls |-> cls, level |-> level, tick_repeat |-> None]

\* variant: the cost of the current level instead of the next
upgrade_cost_flat(self) == self.level * 5

upgrade_cost(self) == (self.level + 1) * 5

\* variant: the refund equals the price paid
downgrade_refund_full(self) == self.level * 5

downgrade_refund(self) == self.level * 4

RECURSIVE RunCallbacksIsolated(_, _, _, _, _)
\* variant: each call wrapped in try/except, the loop goes on after a raise
RunCallbacksIsolated(cbs, self, data, raise_at, done) ==
    IF cbs = <<>> THEN [calls |-> done, error |-> "none"]
    ELSE RunCallbacksIsolated(Tail(cbs), self, data, raise_at,
            Append(done, [callback |-> Head(cbs), self |-> self, data |-> data]))

RECURSIVE RunCallbacks(_, _, _, _, _)
\* for callback in self._event_callbacks[event_name]: callback(self, **event_args)
\* Callbacks are user code: the raise_at-th call of this dispatch raises
\* (raise_at = 0: none does).  done are the calls made so far.
RunCallbacks(cbs, self, data, raise_at, done) ==
    IF cbs = <<>> THEN [calls |-> done, error |-> "none"]
    ELSE LET call == [callback |-> Head(cbs), self |-> self, data |-> data]
         IN  IF Len(done) + 1 = raise_at
             THEN [calls |-> Append(done, call), error |-> "CallbackError"]
             ELSE RunCallbacks(Tail(cbs), self, data, raise_at, Append(done, call))

\* self._event_callbacks[event_name] on a defaultdict(list): a missing key is
\* inserted with an empty list
DefaultDictGet(registry, event_name) ==
    IF event_name \in DOMAIN registry THEN registry
    ELSE registry @@ (event_name :> <<>>)

\* variant: a plain dict lookup without the membership test
execute_callbacks_strict(registry, self, event_name, data, raise_at) ==
    IF event_name \notin DOMAIN registry
    THEN [calls |-> <<>>, error |-> "KeyError", registry |-> registry]
    ELSE RunCallbacks(registry[event_name], self, data, raise_at, <<>>)
         @@ [registry |-> registry]

\* variant: the loop indexes the defaultdict without the membership test
execute_callbacks_unguarded(registry, self, event_name, data, raise_at) ==
    RunCallbacks(DefaultDictGet(registry, event_name)[event_name],
                 self, data, raise_at, <<>>)
    @@ [registry |-> DefaultDictGet(registry, event_name)]

\* Skill.execute_callbacks(self, event_name, **event_args); registry is the
\* class's _event_callbacks as the call leaves it
execute_callbacks(registry, self, event_name, data, raise_at) ==
    IF event_name \notin DOMAIN registry
    THEN [calls |-> <<>>, error |-> "none", registry |-> registry]
    ELSE RunCallbacks(DefaultDictGet(registry, event_name)[event_name],
                      self, data, raise_at, <<>>)
         @@ [registry |-> DefaultDictGet(registry, event_name)]

\* variant: a fixed bonus, whatever the level
give_health_flat(level, health) == health + 25

\* _give_health of the docstring's Bonus_Health:
\* player.health += self.level * 25
give_health(level, health) == health + level * 25

RECURSIVE PlayerHealth(_, _, _)
\* health of the player passed as event argument after the calls cs returned;
\* only _give_health touches it
PlayerHealth(cs, insts, health) ==
    IF cs = <<>> THEN health
    ELSE PlayerHealth(Tail(cs), insts,
            IF Head(cs).callback.name = "_give_health"
            THEN give_health(insts[Head(cs).self].level, health)
            ELSE health)

\* the calls of a dispatch that returned: all but a raising last one
Returned(r) ==
    IF r.error = "none" THEN r.calls ELSE SubSeq(r.calls, 1, Len(r.calls) - 1)

\* Leveling guards of the embedding (the level state machine)
CanUpgrade(ml, level) == ml = None \/ level + 1 <= ml

CanDowngrade(level) == level > 0

----------------------------------------------------------------------------
(* TickRepeatSkill *)

\* TickRepeat(callback) of listeners.tick: a new repeat object bound to callback
TickRepeat(self) ==
    [self |-> self, method |-> "_tick", fired |-> 0, raised |-> 0,
     canceled |-> FALSE]

\* variant: one TickRepeat shared by all instances of the module
TickRepeatSkill_init_shared(cls, level, self, reps) ==
    [self   |-> [Skill_init(cls, level) EXCEPT !.tick_repeat = 1],
     timers |-> IF reps = <<>> THEN <<TickRepeat(self)>> ELSE reps]

\* TickRepeatSkill.__init__(self, level=0): Skill.__init__, then one new
\* TickRepeat bound to this instance's _tick, stored as self.tick_repeat
TickRepeatSkill_init(cls, level, self, reps) ==
    [self   |-> [Skill_init(cls, level) EXCEPT !.tick_repeat = Len(reps) + 1],
     timers |-> Append(reps, TickRepeat(self))]

\* Teardown of instance self.  TickRepeatSkill has no __del__ and no other
\* cleanup method: dropping an instance runs no code that touches its
\* tick_repeat.
TickRepeatSkill_del(reps, self) == reps

\* variant: a base _tick that passes silently
TickRepeatSkill_tick_silent == "none"

\* TickRepeatSkill._tick
TickRepeatSkill_tick == "NotImplementedError"

\* self._tick(): the method the lookup finds; an override is user code
tick(cls, c) ==
    IF TickOwner(cls, c) = TickRepeatSkillId THEN TickRepeatSkill_tick ELSE "none"

----------------------------------------------------------------------------
(* State machine *)

NoOp == [name |-> "import", self |-> 0, cls |-> 0, event |-> "", data |-> 0,
         decls |-> <<>>, raise_at |-> 0]

Init ==
    /\ classes =
         LET skill == SkillId :>
                        (NewClass(None, SkillAttrs, TRUE, None)
                         @@ [registry_ref |->
                               collections_defaultdict(<<>>, SkillId, None,
                                                       SkillAttrs)])
         IN  skill @@
             (TickRepeatSkillId :>
                (NewClass(SkillId, TickRepeatSkillAttrs, FALSE, None)
                 @@ [registry_ref |->
                       collections_defaultdict(skill, TickRepeatSkillId,
                                               SkillId,
                                               TickRepeatSkillAttrs)]))
    /\ instances = <<>>
    /\ timers = <<>>
    /\ calls = <<>>
    /\ error = "none"
    /\ result = 0
    /\ lastOp = NoOp
    /\ account = EmptyRegistry
    /\ destroyed = {}

RECURSIVE MethodCount(_, _)
\* methods declared by the user-defined classes in S
MethodCount(cls, S) ==
    IF S = {} THEN 0
    ELSE LET c == CHOOSE x \in S : TRUE
         IN  Len(cls[c].attrs) + MethodCount(cls, S \ {c})

\* class C(base): <decls>; max_level = ml   (ml = None: not set in the body)
DefineClass(c, base, decls, ml) ==
    /\ c \notin DOMAIN classes
    /\ \A d \in UserClassIds : d < c => d \in DOMAIN classes
    /\ base \in DOMAIN classes
    /\ MethodCount(classes, DOMAIN classes \cap UserClassIds) + Len(decls)
          <= MaxMethods
    /\ LET rejected == \E i \in 1..Len(decls) : \E j \in 1..Len(decls[i].decos) :
                           event_callback_error(decls[i].decos[j]) # "none"
       IN  \* an error raised in the class body leaves the class undefined
           /\ classes' = IF rejected THEN classes
                          ELSE classes @@
                               (c :> (NewClass(base, ClassBody(c, decls),
                                               ml # None, ml)
                                      @@ [decls |-> decls,
                                          registry_ref |->
                                            collections_defaultdict(
                                              classes, c, base,
                                              ClassBody(c, decls))]))
           /\ error' = IF rejected THEN "DeclarationError" ELSE "none"
    /\ calls' = <<>>
    /\ result' = 0
    /\ lastOp' = [NoOp EXCEPT !.name = "class", !.cls = c, !.decls = decls]
    /\ UNCHANGED <<instances, timers, account, destroyed>>

\* @event_callback(*event_names) applied to a def outside any class body
Decorate(name, event_names) ==
    /\ result' = event_callback(event_names, function(None, name))
    /\ error' = event_callback_error(event_names)
    /\ calls' = <<>>
    /\ lastOp' = [NoOp EXCEPT !.name = "event_callback",
                     !.decls = <<[name |-> name, decos |-> <<event_names>>]>>]
    /\ UNCHANGED <<classes, instances, timers, account, destroyed>>

\* C(level) for a class that does not derive from TickRepeatSkill
ConstructSkill(c, level) ==
    /\ c \in DOMAIN classes
    /\ ~IsSubclass(classes, c, TickRepeatSkillId)
    /\ Len(instances) < MaxInstances
    /\ instances' = Append(instances, Skill_init(c, level))
    /\ calls' = <<>>
    /\ error' = "none"
    /\ result' = 0
    /\ lastOp' = [NoOp EXCEPT !.name = "construct", !.cls = c,
                              !.self = Len(instances) + 1]
    /\ UNCHANGED <<classes, timers, account, destroyed>>

\* instance.execute_callbacks(event_name, **data)
Dispatch(i, event_name, data, raise_at) ==
    /\ i \in 1..Len(instances)
    /\ LET r == execute_callbacks(classes[instances[i].cls].event_callbacks,
                                  i, event_name, data, raise_at)
       IN  /\ calls' = r.calls
           /\ error' = r.error
           /\ classes' = [classes EXCEPT
                             ![instances[i].cls].event_callbacks = r.registry]
           \* data is the health of the player the event carries
           /\ result' = PlayerHealth(Returned(r), instances, data)
    /\ lastOp' = [NoOp EXCEPT !.name = "execute_callbacks", !.self = i,
                              !.event = event_name, !.data = data,
                              !.raise_at = raise_at]
    /\ UNCHANGED <<instances, timers, account, destroyed>>

\* C(level) for a class that derives from TickRepeatSkill
ConstructTimed(c, level) ==
    /\ c \in DOMAIN classes
    /\ IsSubclass(classes, c, TickRepeatSkillId)
    /\ Len(instances) < MaxInstances
    /\ LET r == TickRepeatSkill_init(c, level, Len(instances) + 1, timers)
       IN  /\ instances' = Append(instances, r.self)
           /\ timers' = r.timers
    /\ calls' = <<>>
    /\ error' = "none"
    /\ result' = 0
    /\ lastOp' = [NoOp EXCEPT !.name = "construct", !.cls = c,
                              !.self = Len(instances) + 1]
    /\ UNCHANGED <<classes, account, destroyed>>

\* the scheduler fires tick repeat h: it calls the bound method it was given
TriggerTick(h) ==
    /\ h \in 1..Len(timers)
    /\ ~timers[h].canceled
    /\ timers[h].fired < MaxTicks
    /\ LET e == tick(classes, instances[timers[h].self].cls)
       IN  /\ error' = e
           /\ timers' = [timers EXCEPT ![h].fired = @ + 1,
                              ![h].raised = @ + (IF e = "none" THEN 0 ELSE 1)]
    /\ calls' = <<>>
    /\ result' = 0
    /\ lastOp' = [NoOp EXCEPT !.name = "tick", !.self = timers[h].self]
    /\ UNCHANGED <<classes, instances, account, destroyed>>

\* class <name>(base): """<doc>"""; <assigns>   inside scope
DefineNamedClass(c, base, header) ==
    /\ c \notin DOMAIN classes
    /\ \A d \in UserClassIds : d < c => d \in DOMAIN classes
    /\ base \in DOMAIN classes
    /\ classes' = classes @@
                     (c :> (NewClass(base, <<>>, FALSE, None)
                            @@ [decls |-> <<>>,
                                registry_ref |->
                                  collections_defaultdict(classes, c, base,
                                                          <<>>)]
                            @@ TypeIdentity(header)))
    /\ calls' = <<>>
    /\ error' = "none"
    /\ result' = 0
    /\ lastOp' = [NoOp EXCEPT !.name = "class", !.cls = c]
    /\ UNCHANGED <<instances, timers, account, destroyed>>

\* C.class_id, C.name or C.description, read on the class
ReadClassAttr(c, attr) ==
    /\ c \in DOMAIN classes \cap UserClassIds
    /\ result' = ClassAttr(classes, c, c, attr)
    /\ calls' = <<>>
    /\ error' = "none"
    /\ lastOp' = [NoOp EXCEPT !.name = attr, !.cls = c]
    /\ UNCHANGED <<classes, instances, timers, account, destroyed>>

\* C._event_callbacks[event_name].append(f) from outside the class
AddEntry(c, event_name, name) ==
    /\ c \in DOMAIN classes
    /\ LET reg == classes[c].event_callbacks
       IN  /\ event_name \in DOMAIN reg => Len(reg[event_name]) < MaxRegistryLen
           /\ classes' = WriteRegistry(classes, c,
                             AppendCallback(reg, event_name,
                                            function(None, name)))
    /\ calls' = <<>>
    /\ error' = "none"
    /\ result' = 0
    /\ lastOp' = [NoOp EXCEPT !.name = "append", !.cls = c,
                              !.event = event_name]
    /\ UNCHANGED <<instances, timers, account, destroyed>>

\* C._event_callbacks[event_name].pop() from outside the class
RemoveEntry(c, event_name) ==
    /\ c \in DOMAIN classes
    /\ LET reg == classes[c].event_callbacks
       IN  /\ event_name \in DOMAIN reg
           /\ reg[event_name] # <<>>
           /\ classes' = WriteRegistry(classes, c,
                             [reg EXCEPT ![event_name] =
                                 SubSeq(@, 1, Len(@) - 1)])
    /\ calls' = <<>>
    /\ error' = "none"
    /\ result' = 0
    /\ lastOp' = [NoOp EXCEPT !.name = "pop", !.cls = c,
                              !.event = event_name]
    /\ UNCHANGED <<instances, timers, account, destroyed>>

\* the owner drops timed instance i (del skill)
Destroy(i) ==
    /\ i \in 1..Len(instances)
    /\ i \notin destroyed
    /\ IsSubclass(classes, instances[i].cls, TickRepeatSkillId)
    /\ destroyed' = destroyed \cup {i}
    /\ timers' = TickRepeatSkill_del(timers, i)
    /\ calls' = <<>>
    /\ error' = "none"
    /\ result' = 0
    /\ lastOp' = [NoOp EXCEPT !.name = "del", !.self = i]
    /\ UNCHANGED <<classes, instances, account>>

\* skill.upgrade_cost
ReadUpgradeCost(i) ==
    /\ i \in 1..Len(instances)
    /\ result' = upgrade_cost(instances[i])
    /\ calls' = <<>>
    /\ error' = "none"
    /\ lastOp' = [NoOp EXCEPT !.name = "upgrade_cost", !.self = i]
    /\ UNCHANGED <<classes, instances, timers, account, destroyed>>

\* skill.downgrade_refund
ReadDowngradeRefund(i) ==
    /\ i \in 1..Len(instances)
    /\ result' = downgrade_refund(instances[i])
    /\ calls' = <<>>
    /\ error' = "none"
    /\ lastOp' = [NoOp EXCEPT !.name = "downgrade_refund", !.self = i]
    /\ UNCHANGED <<classes, instances, timers, account, destroyed>>

\* the embedding's upgrade: level += 1, guarded by the class's max_level
Upgrade(i) ==
    /\ i \in 1..Len(instances)
    /\ CanUpgrade(max_level(classes, instances[i].cls), instances[i].level)
    /\ instances[i].level < MaxLevelArg + 1
    /\ instances' = [instances EXCEPT ![i].level = @ + 1]
    /\ calls' = <<>>
    /\ error' = "none"
    /\ result' = 0
    /\ lastOp' = [NoOp EXCEPT !.name = "upgrade", !.self = i]
    /\ UNCHANGED <<classes, timers, account, destroyed>>

\* the embedding's downgrade: level -= 1, only above level 0
Downgrade(i) ==
    /\ i \in 1..Len(instances)
    /\ CanDowngrade(instances[i].level)
    /\ instances' = [instances EXCEPT ![i].level = @ - 1]
    /\ calls' = <<>>
    /\ error' = "none"
    /\ result' = 0
    /\ lastOp' = [NoOp EXCEPT !.name = "downgrade", !.self = i]
    /\ UNCHANGED <<classes, timers, account, destroyed>>

\* the credits spent and refunded on instance i since its first priced
\* transition: the level it started from, the balance, whether it was upgraded
Ledger(i) ==
    IF i \in DOMAIN account THEN account[i]
    ELSE [start |-> instances[i].level, balance |-> 0, upgraded |-> FALSE,
          count |-> 0]

Post(i, amount, is_upgrade) ==
    LET entry == [Ledger(i) EXCEPT !.balance = @ + amount,
                                   !.upgraded = @ \/ is_upgrade,
                                   !.count = @ + 1]
    IN  IF i \in DOMAIN account THEN [account EXCEPT ![i] = entry]
        ELSE account @@ (i :> entry)

\* the embedding's priced upgrade: pay upgrade_cost, then level += 1
BuyUpgrade(i) ==
    /\ i \in 1..Len(instances)
    /\ CanUpgrade(max_level(classes, instances[i].cls), instances[i].level)
    /\ instances[i].level < MaxLevelArg + 1
    /\ Ledger(i).count < MaxTransactions
    /\ account' = Post(i, 0 - upgrade_cost(instances[i]), TRUE)
    /\ instances' = [instances EXCEPT ![i].level = @ + 1]
    /\ calls' = <<>>
    /\ error' = "none"
    /\ result' = upgrade_cost(instances[i])
    /\ lastOp' = [NoOp EXCEPT !.name = "buy_upgrade", !.self = i]
    /\ UNCHANGED <<classes, timers, destroyed>>

\* the embedding's priced downgrade: receive downgrade_refund, then level -= 1
SellDowngrade(i) ==
    /\ i \in 1..Len(instances)
    /\ CanDowngrade(instances[i].level)
    /\ Ledger(i).count < MaxTransactions
    /\ account' = Post(i, downgrade_refund(instances[i]), FALSE)
    /\ instances' = [instances EXCEPT ![i].level = @ - 1]
    /\ calls' = <<>>
    /\ error' = "none"
    /\ result' = downgrade_refund(instances[i])
    /\ lastOp' = [NoOp EXCEPT !.name = "sell_downgrade", !.self = i]
    /\ UNCHANGED <<classes, timers, destroyed>>

----------------------------------------------------------------------------
(* Inputs *)

\* a def with no decorator, or with one event_callback(...) line
Decorations == {<<>>} \cup {<<t>> : t \in EventTuples}

Decls(names) == [name : names, decos : Decorations]

\* class bodies: each name is declared once (attrs is a dict)
Bodies(names) ==
    {b \in SeqsUpTo(Decls(names), Cardinality(names)) :
        \A i, j \in 1..Len(b) : i # j => b[i].name # b[j].name}

RegistryBodies == Bodies(MethodNames)

TimedBodies == {<<>>, <<[name |-> "_tick", decos |-> <<>>]>>}

LevelArgs == (-1)..MaxLevelArg

MaxLevelSettings == {None, MaxLevelSet}

\* the body of the docstring's Bonus_Health: one callback on player_spawn
LevelBodies ==
    {<<[name |-> "_give_health", decos |-> <<(<<"player_spawn">>)>>]>>}

IdentityAttrs == {"class_id", "name", "description"}

\* type names: non-empty character sequences
TypeNames == SeqsUpTo({"B", "h", "_"}, MaxNameLen) \ {<<>>}

\* class statements: at module level or nested in a class O, with or without
\* a docstring, assigning any of the three attributes
Headers ==
    {[name |-> n, scope |-> sc, doc |-> d, assigns |-> a] :
        n \in TypeNames, sc \in {<<>>, <<"O", ".">>},
        d \in {PyNone, Str(<<"d", "_">>)},
        a \in UNION {[S -> {Str(<<"X", "_">>)}] : S \in SUBSET IdentityAttrs}}

\* no callback at all, or the same _give_health in every class
AliasBodies == {<<>>} \cup LevelBodies

\* the event names of one decorator line in a stack: none, one or two names
StackedTuples ==
    {t \in EventTuples : Len(t) <= 1}
       \cup {<<"player_spawn", "player_death">>}

\* one def under up to MaxDecorations stacked event_callback(...) lines
StackedBodies ==
    {<<[name |-> "_give_health", decos |-> ds]>> :
        ds \in SeqsUpTo(StackedTuples, MaxDecorations)}

\* the callbacks a dispatch of event_name on instance i reaches
Registered(i, event_name) ==
    LET reg == classes[instances[i].cls].event_callbacks
    IN  IF event_name \in DOMAIN reg THEN reg[event_name] ELSE <<>>

----------------------------------------------------------------------------
(* Specifications *)

NoUserClass == DOMAIN classes \cap UserClassIds = {}

\* one skill class with event callbacks, its instances, dispatch
Next ==
    \/ \E c \in UserClassIds, decls \in RegistryBodies :
          NoUserClass /\ DefineClass(c, SkillId, decls, None)
    \/ \E name \in MethodNames, names \in EventTuples :
          instances = <<>> /\ Decorate(name, names)
    \/ \E c \in DOMAIN classes \cap UserClassIds : ConstructSkill(c, 0)
    \/ \E i \in 1..Len(instances), e \in Events, d \in EventData :
          \E raise_at \in 0..Len(Registered(i, e)) :
             Dispatch(i, e, d, raise_at)

Spec == Init /\ [][Next]_vars

\* skill classes deriving from one another, one instance, dispatches in
\* which no callback raises
NextInherit ==
    \/ \E c \in UserClassIds, base \in {SkillId} \cup UserClassIds,
          decls \in RegistryBodies :
          DefineClass(c, base, decls, None)
    \/ \E c \in DOMAIN classes \cap UserClassIds :
          instances = <<>> /\ ConstructSkill(c, 0)
    \/ \E i \in 1..Len(instances), e \in Events, d \in EventData :
          Dispatch(i, e, d, 0)

SpecInherit == Init /\ [][NextInherit]_vars

\* one class whose callback carries stacked decorators, instances, dispatch
NextStacked ==
    \/ \E c \in UserClassIds, decls \in StackedBodies :
          NoUserClass /\ DefineClass(c, SkillId, decls, None)
    \/ \E c \in DOMAIN classes \cap UserClassIds : ConstructSkill(c, 0)
    \/ \E i \in 1..Len(instances), e \in Events, d \in EventData :
          Dispatch(i, e, d, 0)

SpecStacked == Init /\ [][NextStacked]_vars

\* classes with a max_level, instances at any level, the level state machine
NextLevel ==
    \/ \E c \in UserClassIds, decls \in LevelBodies, ml \in MaxLevelSettings :
          NoUserClass /\ DefineClass(c, SkillId, decls, ml)
    \/ \E c \in DOMAIN classes \cap UserClassIds, level \in LevelArgs :
          ConstructSkill(c, level)
    \/ \E i \in 1..Len(instances) : Upgrade(i)
    \/ \E i \in 1..Len(instances) : Downgrade(i)
    \/ \E i \in 1..Len(instances) : ReadUpgradeCost(i)
    \/ \E i \in 1..Len(instances) : ReadDowngradeRefund(i)
    \/ \E i \in 1..Len(instances), e \in Events, d \in EventData :
          Dispatch(i, e, d, 0)

SpecLevel == Init /\ [][NextLevel]_vars

\* a class with a max_level, one instance, priced upgrades and downgrades
NextEconomy ==
    \/ \E c \in UserClassIds, decls \in LevelBodies, ml \in MaxLevelSettings :
          NoUserClass /\ DefineClass(c, SkillId, decls, ml)
    \/ \E c \in DOMAIN classes \cap UserClassIds, level \in LevelArgs :
          instances = <<>> /\ ConstructSkill(c, level)
    \/ \E i \in 1..Len(instances) : BuyUpgrade(i)
    \/ \E i \in 1..Len(instances) : SellDowngrade(i)

SpecEconomy == Init /\ [][NextEconomy]_vars

\* classes deriving from TickRepeatSkill, their instances and tick repeats
NextTimed ==
    \/ \E c \in UserClassIds, base \in {TickRepeatSkillId} \cup UserClassIds,
          decls \in TimedBodies :
          DefineClass(c, base, decls, None)
    \/ \E c \in DOMAIN classes : ConstructTimed(c, 0)
    \/ ConstructSkill(SkillId, 0)
    \/ \E h \in 1..Len(timers) : TriggerTick(h)

SpecTimed == Init /\ [][NextTimed]_vars

\* one named class and reads of its identity attributes
NextIdentity ==
    \/ /\ NoUserClass
       /\ \E c \in UserClassIds, base \in {SkillId, TickRepeatSkillId},
             header \in Headers :
             DefineNamedClass(c, base, header)
    \/ \E c \in UserClassIds, attr \in IdentityAttrs : ReadClassAttr(c, attr)

SpecIdentity == Init /\ [][NextIdentity]_vars

\* base and derived classes whose registries are written to after
\* construction
NextAlias ==
    \/ \E c \in UserClassIds, base \in {SkillId} \cup UserClassIds,
          decls \in AliasBodies :
          DefineClass(c, base, decls, None)
    \/ \E c \in UserClassIds : AddEntry(c, "player_spawn", "_on_death")
    \/ \E c \in UserClassIds, e \in Events : RemoveEntry(c, e)

SpecAlias == Init /\ [][NextAlias]_vars

\* the same, with instances being dropped
NextTeardown ==
    \/ \E c \in UserClassIds, base \in {TickRepeatSkillId} \cup UserClassIds,
          decls \in TimedBodies :
          DefineClass(c, base, decls, None)
    \/ \E c \in DOMAIN classes : ConstructTimed(c, 0)
    \/ \E h \in 1..Len(timers) : TriggerTick(h)
    \/ \E i \in 1..Len(instances) : Destroy(i)

SpecTeardown == Init /\ [][NextTeardown]_vars

----------------------------------------------------------------------------
(* Properties *)

Count(x, s) == Cardinality({k \in 1..Len(s) : s[k] = x})

IndexOf(x, s) == CHOOSE k \in 1..Len(s) : s[k] = x

RegisteredIn(c, e) ==
    IF e \in DOMAIN classes[c].event_callbacks
    THEN classes[c].event_callbacks[e] ELSE <<>>

CallbacksOf(cs) == [k \in 1..Len(cs) |-> cs[k].callback]

RECURSIVE Repeat(_, _)
Repeat(x, n) == IF n = 0 THEN <<>> ELSE <<x>> \o Repeat(x, n - 1)

RECURSIVE DeclaredUnder(_, _)
\* the callbacks of a class body tagged with event e, in declaration order
DeclaredUnder(attrs, e) ==
    IF attrs = <<>> THEN <<>>
    ELSE (IF Head(attrs).tagged
          THEN Repeat(Head(attrs), Count(e, Head(attrs).events)) ELSE <<>>)
         \o DeclaredUnder(Tail(attrs), e)

Dispatched == lastOp.name = "execute_callbacks"

\* C1: the registry of a class C with base B holds, under every event name,
\* every callback B's registry holds there, except those whose method name C
\* declares itself.
C1_SubclassKeepsBaseCallbacks ==
    \A c \in DOMAIN classes \cap UserClassIds :
      \A e \in Events :
        \A k \in 1..Len(RegisteredIn(classes[c].base, e)) :
          LET f == RegisteredIn(classes[c].base, e)[k]
          IN  ~HasMethod(classes[c].attrs, f.name)
                => Count(f, RegisteredIn(c, e)) >= 1

\* C2: when a subclass adds a new callback under an event name its base
\* already registers a callback for, one dispatch of that event on a subclass
\* instance calls both exactly once, the inherited one first.
C2_InheritedRunsBeforeAdded ==
    (Dispatched /\ error = "none") =>
      LET c == instances[lastOp.self].cls
          e == lastOp.event
          own == RegisteredIn(c, e)
          inherited == RegisteredIn(classes[c].base, e)
          called == CallbacksOf(calls)
      IN  \A k \in 1..Len(inherited), j \in 1..Len(own) :
            ( /\ own[j].name # inherited[k].name
              /\ Count(e, own[j].events) = 1
              /\ Count(e, inherited[k].events) = 1 )
            => /\ Count(inherited[k], called) = 1
               /\ Count(own[j], called) = 1
               /\ IndexOf(inherited[k], called) < IndexOf(own[j], called)

\* C3: a dispatch of event E that returns normally calls exactly the N
\* callbacks registered under E, each once per registration, in the order of
\* their declaration in the class body, all with the dispatching instance and
\* the dispatch's event data; callbacks tagged only with other names are not
\* called.
C3_DispatchCallsRegisteredInOrder ==
    (Dispatched /\ error = "none") =>
      LET c == instances[lastOp.self].cls
          expected == DeclaredUnder(classes[c].attrs, lastOp.event)
      IN  /\ Len(RegisteredIn(c, lastOp.event)) = Len(expected)
          /\ calls = [k \in 1..Len(expected) |->
                        [callback |-> expected[k], self |-> lastOp.self,
                         data |-> lastOp.data]]

C3_Witness ==
    /\ Dispatched /\ error = "none"
    /\ Len(calls) = 2
    /\ calls[1].callback # calls[2].callback
    /\ calls[1].callback = classes[instances[lastOp.self].cls].attrs[1]
    /\ calls[2].callback = classes[instances[lastOp.self].cls].attrs[2]

\* C4: a dispatch of an event name that is not a key of the class registry
\* returns without an error, calls nothing and leaves the instances alone.
C4_UnknownEventIsNoOp ==
    [][ ( /\ lastOp'.name = "execute_callbacks"
          /\ lastOp'.event \notin
               DOMAIN classes'[instances'[lastOp'.self].cls].event_callbacks )
        => ( error' = "none" /\ calls' = <<>> /\ instances' = instances ) ]_vars

C4_Witness ==
    /\ Dispatched
    /\ lastOp.event \notin DOMAIN classes[instances[lastOp.self].cls].event_callbacks
    /\ DOMAIN classes[instances[lastOp.self].cls].event_callbacks # {}

\* C5: when the k-th of the N registered callbacks raises, the dispatch has
\* called callbacks 1..k once each and in order, calls none of k+1..N, does
\* not call the k-th again, and ends with that error.
C5_RaiseAbortsDispatch ==
    (Dispatched /\ lastOp.raise_at >= 1) =>
      LET cbs == RegisteredIn(instances[lastOp.self].cls, lastOp.event)
          k == lastOp.raise_at
      IN  /\ error = "CallbackError"
          /\ Len(calls) = k
          /\ \A j \in 1..k :
                calls[j] = [callback |-> cbs[j], self |-> lastOp.self,
                            data |-> lastOp.data]

C5_Witness ==
    /\ Dispatched /\ lastOp.raise_at = 2
    /\ Len(RegisteredIn(instances[lastOp.self].cls, lastOp.event)) = 3
    /\ Len(calls) = 2
    /\ error = "CallbackError"

\* C6: for an instance at level L >= 0, upgrade_cost is (L+1)*5 and
\* downgrade_refund is L*4, of the level at the time of the read, and the read
\* changes no level.
C6_CostsFollowLevel ==
    [][ /\ ( lastOp'.name = "upgrade_cost" /\ instances[lastOp'.self].level >= 0 )
          => ( /\ result' = (instances[lastOp'.self].level + 1) * 5
               /\ instances' = instances )
        /\ ( lastOp'.name = "downgrade_refund"
              /\ instances[lastOp'.self].level >= 0 )
          => ( /\ result' = instances[lastOp'.self].level * 4
               /\ instances' = instances ) ]_vars

C6_Witness ==
    /\ lastOp.name = "upgrade_cost"
    /\ instances[lastOp.self].level = MaxLevelArg + 1
    /\ result = (MaxLevelArg + 2) * 5

\* C7: the level of an instance is never negative and never above the
\* max_level its class sets, whatever level it was constructed with.
C7_LevelWithinRange ==
    \A i \in 1..Len(instances) :
      /\ instances[i].level >= 0
      /\ max_level(classes, instances[i].cls) # None
           => instances[i].level <= max_level(classes, instances[i].cls)

\* C8: a class body that applies event_callback with zero event names is
\* rejected with an error when the decorator is applied.
C8_ZeroNamesRejected ==
    ( /\ lastOp.name = "class"
      /\ \E i \in 1..Len(lastOp.decls) : \E j \in 1..Len(lastOp.decls[i].decos) :
            lastOp.decls[i].decos[j] = <<>> )
    => error = "DeclarationError"

InheritsBaseTick(i) == TickOwner(classes, instances[i].cls) = TickRepeatSkillId

\* C9: for a class deriving from TickRepeatSkill without its own _tick, the
\* class statement and the construction end without an error, and every
\* trigger of the tick repeat raises NotImplementedError, once per trigger.
C9_BaseTickAlwaysRaises ==
    /\ lastOp.name \in {"class", "construct"} => error = "none"
    /\ \A h \in 1..Len(timers) :
         InheritsBaseTick(timers[h].self) =>
           /\ timers[h].raised = timers[h].fired
           /\ (lastOp.name = "tick" /\ lastOp.self = timers[h].self)
                => error = "NotImplementedError"

C9_Witness ==
    \E h \in 1..Len(timers) :
      /\ instances[timers[h].self].cls \in UserClassIds
      /\ InheritsBaseTick(timers[h].self)
      /\ timers[h].fired = MaxTicks
      /\ timers[h].raised = MaxTicks
      /\ lastOp.name = "tick" /\ lastOp.self = timers[h].self

IsTimed(i) == IsSubclass(classes, instances[i].cls, TickRepeatSkillId)

\* C10: every constructed timed instance holds the handle of one tick repeat
\* bound to its own _tick; there are as many tick repeats as timed instances
\* and no two instances hold the same one.
C10_OneTickRepeatPerInstance ==
    /\ Len(timers) = Cardinality({i \in 1..Len(instances) : IsTimed(i)})
    /\ \A i \in 1..Len(instances) :
         IF IsTimed(i)
         THEN /\ instances[i].tick_repeat \in 1..Len(timers)
              /\ timers[instances[i].tick_repeat].self = i
              /\ timers[instances[i].tick_repeat].method = "_tick"
         ELSE instances[i].tick_repeat = None
    /\ \A i, j \in 1..Len(instances) :
         (i # j /\ IsTimed(i) /\ IsTimed(j))
           => instances[i].tick_repeat # instances[j].tick_repeat

C10_Witness ==
    /\ Len(instances) = MaxInstances
    /\ \E i, j \in 1..Len(instances) : i # j /\ IsTimed(i) /\ IsTimed(j)
    /\ Len(timers) >= 2

Distinct(names) == \A i, j \in 1..Len(names) : i # j => names[i] # names[j]

\* C15: no construction and no dispatch, of a registered or an unregistered
\* event name, adds or removes a key of any class's registry or changes any
\* of its callback lists.
C15_RegistryNeverChanges ==
    [][ \A c \in DOMAIN classes :
          /\ c \in DOMAIN classes'
          /\ classes'[c].event_callbacks = classes[c].event_callbacks ]_vars

C15_Witness ==
    /\ Dispatched
    /\ Len(instances) = MaxInstances
    /\ lastOp.self = MaxInstances
    /\ lastOp.event \notin DOMAIN classes[instances[lastOp.self].cls].event_callbacks
    /\ Len(classes[instances[lastOp.self].cls].attrs) >= 1

\* C17: a callback decorated with distinct event names is registered under
\* each of them once and under no other name; a dispatch of one of its names
\* calls it once, a dispatch of another name does not call it.
C17_RegisteredUnderEachNameOnce ==
    \A c \in DOMAIN classes \cap UserClassIds :
      \A k \in 1..Len(classes[c].attrs) :
        LET f == classes[c].attrs[k]
            times(e) == IF Count(e, f.events) >= 1 THEN 1 ELSE 0
        IN  (f.tagged /\ Distinct(f.events)) =>
              /\ \A e \in Events : Count(f, RegisteredIn(c, e)) = times(e)
              /\ ( Dispatched /\ error = "none"
                    /\ instances[lastOp.self].cls = c )
                  => Count(f, CallbacksOf(calls)) = times(lastOp.event)

C17_Witness ==
    /\ Dispatched /\ error = "none"
    /\ \E k \in 1..Len(classes[instances[lastOp.self].cls].attrs) :
          LET f == classes[instances[lastOp.self].cls].attrs[k]
          IN  /\ f.tagged /\ Len(f.events) = 2 /\ Distinct(f.events)
              /\ Count(f, CallbacksOf(calls)) = 1

\* C18: a method without declared event names is in no callback list of any
\* registry and is never called by a dispatch; applying the decorator alone
\* changes no registry.
C18_UntaggedNeverRegistered ==
    [][ /\ \A c \in DOMAIN classes' : \A e \in DOMAIN classes'[c].event_callbacks :
             \A k \in 1..Len(classes'[c].event_callbacks[e]) :
                classes'[c].event_callbacks[e][k].tagged
        /\ \A k \in 1..Len(calls') : calls'[k].callback.tagged
        /\ lastOp'.name = "event_callback" => classes' = classes ]_vars

C18_Witness ==
    /\ Dispatched /\ Len(calls) = 1
    /\ \E k \in 1..Len(classes[instances[lastOp.self].cls].attrs) :
          ~classes[instances[lastOp.self].cls].attrs[k].tagged

\* C16: when subclass C declares an event callback with the method name of an
\* event callback of its base B, C's registry holds the replacement and not
\* B's original, and B's callbacks whose names C does not declare stay
\* registered in C as they are in B.
C16_OverrideKeepsOtherCallbacks ==
    \A c \in DOMAIN classes \cap UserClassIds :
      LET b == classes[c].base
      IN  \A k \in 1..Len(classes[c].attrs), j \in 1..Len(classes[b].attrs) :
            LET g == classes[c].attrs[k]
                f == classes[b].attrs[j]
            IN  (b \in UserClassIds /\ g.tagged /\ f.tagged /\ g.name = f.name) =>
                  /\ \A e \in Events :
                        /\ Count(f, RegisteredIn(c, e)) = 0
                        /\ Count(g, RegisteredIn(c, e)) = Count(e, g.events)
                  /\ \A i \in 1..Len(classes[b].attrs) :
                        LET h == classes[b].attrs[i]
                        IN  (h.tagged /\ ~HasMethod(classes[c].attrs, h.name)) =>
                              \A e \in Events :
                                Count(h, RegisteredIn(c, e))
                                  = Count(h, RegisteredIn(b, e))

\* C20: a callback under several event_callback lines carries the names of
\* the outermost line only: it is registered under those names alone, and a
\* dispatch of a name given only by an inner line does not call it.
C20_LastDecorationWins ==
    \A c \in DOMAIN classes \cap UserClassIds :
      \A k \in 1..Len(classes[c].decls) :
        LET decos == classes[c].decls[k].decos
            f == classes[c].attrs[k]
            outer == decos[Len(decos)]
        IN  Len(decos) >= 2 =>
              /\ f.events = outer
              /\ \A e \in Events : Count(f, RegisteredIn(c, e)) = Count(e, outer)
              /\ ( Dispatched /\ error = "none"
                    /\ instances[lastOp.self].cls = c )
                  => Count(f, CallbacksOf(calls)) = Count(lastOp.event, outer)

C20_Witness ==
    /\ Dispatched /\ calls = <<>>
    /\ LET decos == classes[instances[lastOp.self].cls].decls[1].decos
       IN  /\ Len(decos) = 2
           /\ Count(lastOp.event, decos[1]) = 1
           /\ Count(lastOp.event, decos[2]) = 0
           /\ decos[2] # <<>>

\* C12: for a class with one player_spawn callback adding level*25 to the
\* player's health, a dispatch of player_spawn on an instance at level L >= 0
\* calls the callback once and raises the health by L*25, L being the level
\* of the dispatching instance.
C12_BonusHealthPerLevel ==
    ( /\ Dispatched /\ lastOp.event = "player_spawn"
      /\ instances[lastOp.self].level >= 0 )
    => /\ Len(calls) = 1
       /\ calls[1].callback.name = "_give_health"
       /\ calls[1].self = lastOp.self
       /\ result = lastOp.data + instances[lastOp.self].level * 25

C12_Witness ==
    /\ Dispatched /\ lastOp.event = "player_spawn"
    /\ Len(instances) = 2
    /\ instances[1].level # instances[2].level
    /\ instances[1].cls = instances[2].cls
    /\ instances[lastOp.self].level = 2
    /\ result = lastOp.data + 50

\* C19: for a level L >= 0 the refund for leaving level L+1 is the cost of
\* reaching it minus L+1; an instance that is back at the level its priced
\* transitions started from has a balance of at most zero, below zero if one
\* of the transitions was an upgrade.
C19_RoundTripLosesCredits ==
    /\ \A i \in 1..Len(instances) :
         instances[i].level >= 0 =>
           downgrade_refund([instances[i] EXCEPT !.level = @ + 1])
              + instances[i].level + 1 = upgrade_cost(instances[i])
    /\ \A i \in DOMAIN account :
         (account[i].start >= 0 /\ instances[i].level = account[i].start) =>
           /\ account[i].balance <= 0
           /\ account[i].upgraded => account[i].balance < 0

C19_Witness ==
    \E i \in DOMAIN account :
      /\ account[i].start >= 0
      /\ instances[i].level = account[i].start
      /\ account[i].upgraded
      /\ account[i].count = MaxTransactions
      /\ account[i].balance < 0

\* C11: once a timed instance is destroyed its tick repeat is canceled and
\* its _tick is not triggered any more.
C11_DestroyCancelsTimer ==
    \A i \in destroyed :
      /\ timers[instances[i].tick_repeat].canceled
      /\ ~(lastOp.name = "tick" /\ lastOp.self = i)

\* no two classes hold the same mapping object, a class without callbacks
\* starts with an empty mapping, and no registry shows a write made to
\* another class
OwnRegistries ==
    /\ \A c, d \in DOMAIN classes :
         c # d => classes[c].registry_ref # classes[d].registry_ref
    /\ (lastOp.name = "class" /\ lastOp.decls = <<>> /\ error = "none") =>
         classes[lastOp.cls].event_callbacks = EmptyRegistry
    /\ \A c \in DOMAIN classes \cap UserClassIds :
         \* what others wrote never shows: a registry holds the callbacks the
         \* class registered itself and functions appended from outside
         \A e \in DOMAIN classes[c].event_callbacks :
           \A k \in 1..Len(classes[c].event_callbacks[e]) :
             classes[c].event_callbacks[e][k].owner \in {c, None}
    /\ lastOp.name \in {"append", "pop"} =>
         \A d \in DOMAIN classes \ UserClassIds :
           classes[d].event_callbacks = EmptyRegistry

\* C13: every class has a registry mapping of its own (a class without
\* callbacks an empty one, not its base's), so adding or removing an entry
\* in the registry of one class changes the registry of no other class.
C13_RegistriesNotShared ==
    [][/\ OwnRegistries'
       /\ lastOp'.name \in {"append", "pop"} =>
            \A d \in DOMAIN classes :
              d # lastOp'.cls =>
                classes'[d].event_callbacks = classes[d].event_callbacks]_vars

C13_Witness ==
    /\ lastOp.name = "append"
    /\ \E c, d \in DOMAIN classes \cap UserClassIds :
         /\ classes[d].base = c
         /\ classes[d].decls = <<>>
         /\ lastOp.cls = d
         /\ classes[d].event_callbacks # EmptyRegistry
         /\ classes[c].event_callbacks = SkillMeta_init(classes[c].base, classes[c].attrs)
         /\ classes[c].event_callbacks # EmptyRegistry

\* C14: read on the class, with no instance made, a class that assigns none
\* of them reports as name its type name with every underscore turned into
\* a space, as description its docstring and as class_id its qualified
\* name; an attribute the class assigns reports the assigned value.
C14_IdentityFromType ==
    lastOp.name \in IdentityAttrs =>
      LET cls == classes[lastOp.cls]
          attr == lastOp.name
      IN  IF attr \in DOMAIN cls.assigns
          THEN result = cls.assigns[attr]
          ELSE CASE attr = "name" ->
                      /\ result.kind = "str"
                      /\ Len(result.text) = Len(cls.__name__)
                      /\ \A k \in 1..Len(cls.__name__) :
                           result.text[k] = IF cls.__name__[k] = "_" THEN " "
                                            ELSE cls.__name__[k]
                 [] attr = "description" -> result = cls.__doc__
                 [] attr = "class_id" ->
                      /\ result.kind = "str"
                      /\ result.text = cls.__qualname__

C14_Witness ==
    /\ lastOp.name = "name"
    /\ instances = <<>>
    /\ "name" \notin DOMAIN classes[lastOp.cls].assigns
    /\ classes[lastOp.cls].__name__ = <<"_", "_">>
    /\ result = Str(<<" ", " ">>)

====
